---- MODULE Spec2Model ----
(***************************************************************************)
(* A model of the CHSTides facade of pychs/chs_iwls.py: station resolution *)
(* (set), metadata enrichment and the derived tide conditions (update),    *)
(* together with the IWLS API the facade talks to.                         *)
(*                                                                         *)
(* Numbers: water levels are exact integers in thousandths of a metre (or  *)
(* of a foot after conversion); a datetime is the second of one fixed day  *)
(* plus a microsecond field.  The 'from' and 'to' timestamps of a request  *)
(* are sequences of one-character strings; an eventDate, which the API     *)
(* prints to the second as YYYY-MM-DDTHH:MM:SSZ, is that second.           *)
(***************************************************************************)
EXTENDS Integers, Sequences, FiniteSets, TLC

VARIABLES
    station_id,           \* CHSTides.station_id   (None or an id)
    station_code,         \* CHSTides.station_code (None or a code)
    coordinates,          \* CHSTides.coordinates  (<<>> for None, or <<lat, lon>>)
    language,             \* "english" | "french"
    measurement,          \* "m" | "ft"
    station_information,  \* CHSTides.station_information
    conditions,           \* CHSTides.conditions
    catalog,              \* the station list the API serves (never changes)
    selector,             \* history: the selector the object was constructed with
    last,                 \* history: what the last completed call did and saw
    height_data,          \* what the last read of the heights property gave
    request               \* the last query validate_query_parameters was given and built

vars == <<station_id, station_code, coordinates, language, measurement,
          station_information, conditions, catalog, selector, last,
          height_data, request>>

None == "None"            \* Python None for string-valued fields
NoKey == "<no key>"       \* a key the dict does not hold

-----------------------------------------------------------------------------
(* Bounds and program constants *)

MaxCatalog == 2           \* longest station list drawn in SpecResolve
MaxHeights == 3           \* most heights a station record drawn in SpecHeights holds

M2FT == 328084            \* 3.28084, in units of 10^-5
WindowHours == 7          \* timedelta(hours=7)

-----------------------------------------------------------------------------
(* Small helpers *)

Abs(n) == IF n < 0 THEN -n ELSE n

\* F applied to the value of v: a local name bound to a value computed once
With(v, F(_)) == CHOOSE y \in {F(x) : x \in {v}} : TRUE

\* n / d rounded to the nearest integer, ties to the even one (Python round).
RoundDiv(n, d) ==
    LET q == n \div d
        r == n % d
    IN  IF 2 * r < d THEN q
        ELSE IF 2 * r > d THEN q + 1
        ELSE IF q % 2 = 0 THEN q ELSE q + 1

\* round(value * M2FT, 2): value in thousandths of a metre, the result in
\* thousandths of a foot (a whole number of hundredths).
ToFeet(value) == 10 * RoundDiv(value * M2FT, 100000000)

Convert(value, unit) == IF unit = "ft" THEN ToFeet(value) ELSE value

RECURSIVE SeqsNoRep(_, _)
\* the sequences without repetition over S of length at most n
SeqsNoRep(S, n) ==
    IF n = 0 THEN {<<>>}
    ELSE With(SeqsNoRep(S, n - 1), LAMBDA shorter :
             shorter \cup
             {Append(q, x) : <<q, x>> \in
                 {p \in shorter \X S :
                     Len(p[1]) = n - 1 /\ \A i \in 1..Len(p[1]) : p[1][i] # p[2]}})

-----------------------------------------------------------------------------
(* Timestamps *)

Digits == <<"0", "1", "2", "3", "4", "5", "6", "7", "8", "9">>
Digit(n) == Digits[n + 1]
IsDigit(c) == c \in {"0", "1", "2", "3", "4", "5", "6", "7", "8", "9"}
DigitValue(c) ==
    CASE c = "0" -> 0 [] c = "1" -> 1 [] c = "2" -> 2 [] c = "3" -> 3 [] c = "4" -> 4
      [] c = "5" -> 5 [] c = "6" -> 6 [] c = "7" -> 7 [] c = "8" -> 8 [] c = "9" -> 9

D2(n) == <<Digit((n \div 10) % 10), Digit(n % 10)>>
D6(n) == <<Digit((n \div 100000) % 10), Digit((n \div 10000) % 10),
           Digit((n \div 1000) % 10)>> \o
         <<Digit((n \div 100) % 10), Digit((n \div 10) % 10), Digit(n % 10)>>

\* the one calendar day all model times fall on
DateChars == <<"2", "0", "2", "0", "-", "0", "1", "-", "1", "5">>

At(h, mi, s, us) == [sec |-> (h * 60 + mi) * 60 + s, us |-> us]

ClockChars(sec) ==
    D2(sec \div 3600) \o <<":">> \o D2((sec \div 60) % 60) \o <<":">> \o D2(sec % 60)

\* datetime.isoformat(): the fraction is printed only when microsecond # 0
isoformat(dt) ==
    DateChars \o <<"T">> \o ClockChars(dt.sec) \o
    (IF dt.us = 0 THEN <<>> ELSE <<".">> \o D6(dt.us))

\* Python s[:-7]
DropLast7(s) == IF Len(s) <= 7 THEN <<>> ELSE SubSeq(s, 1, Len(s) - 7)

\* validate_query_parameters, the 'from'/'to' branch
QueryTimestamp(dt) == DropLast7(isoformat(dt)) \o <<"Z">>

\* dt +/- timedelta(hours = n)
PlusHours(dt, n) == [dt EXCEPT !.sec = @ + n * 3600]

\* a string of the form YYYY-MM-DDTHH:MM:SSZ on the model's day
WellFormedTimestamp(s) ==
    /\ Len(s) = 20
    /\ SubSeq(s, 1, 10) = DateChars
    /\ s[11] = "T" /\ s[14] = ":" /\ s[17] = ":" /\ s[20] = "Z"
    /\ \A i \in {12, 13, 15, 16, 18, 19} : IsDigit(s[i])

\* the second of the day a well-formed string names
TimestampSecond(s) ==
    ((10 * DigitValue(s[12]) + DigitValue(s[13])) * 60
        + 10 * DigitValue(s[15]) + DigitValue(s[16])) * 60
        + 10 * DigitValue(s[18]) + DigitValue(s[19])

\* datetime.strptime(eventDate, "%Y-%m-%dT%H:%M:%SZ"): no microseconds
strptime(eventDate) == [sec |-> eventDate, us |-> 0]

\* datetime.strftime("%Y-%m-%dT%H:%M:%SZ"): the microseconds are dropped
strftime(dt) == dt.sec

\* datetime comparison
Before(a, b) == a.sec < b.sec \/ (a.sec = b.sec /\ a.us < b.us)

-----------------------------------------------------------------------------
(* The IWLS API: what the endpoints serve.  Ids "s1".."s4" stand for 24-digit *)
(* hexadecimal station ids; every station lies on the equator.                *)

StationSummary(id, code, lon) ==
    [id |-> id, code |-> code, latitude |-> 0, longitude |-> lon]

S1 == StationSummary("s1", "00001", 0)
S2 == StationSummary("s2", "00002", 2)
S3 == StationSummary("s3", "00003", -2)
S4 == StationSummary("s4", "00002", 5)     \* shares its code with s2

AllStations == {S1, S2, S3, S4}
RefCatalog == <<S3, S1, S2, S4>>

\* A JSON body as get_data hands it on: a list, an object with the expected
\* keys ("dict"), an object without them ("error"), the empty dict of
\* __init__ ("empty"), or the string '0' ("nonjson").
Body(shape) ==
    [shape |-> shape, items |-> <<>>, id |-> NoKey, code |-> NoKey,
     tideTableId |-> NoKey, tideTable |-> NoKey, nameEn |-> NoKey,
     nameFr |-> NoKey, heights |-> <<>>, timeSeries |-> <<>>]

EmptyDict == Body("empty")
Sentinel == Body("nonjson")
ErrorBody == Body("error")
ListBody(items) == [Body("list") EXCEPT !.items = items]
NameBody(en, fr) == [Body("dict") EXCEPT !.nameEn = en, !.nameFr = fr]

RawHeight(heightTypeId, value) ==
    [heightTypeId |-> heightTypeId, value |-> value, code |-> NoKey, name |-> NoKey]

RawSeries(id, code, phenomenonId) ==
    [id |-> id, code |-> code, nameEn |-> "series", nameFr |-> "serie",
     name |-> NoKey, phenomenonId |-> phenomenonId]

MetadataBody(id, code, heights, timeSeries) ==
    [Body("dict") EXCEPT !.id = id, !.code = code, !.tideTableId = "tt1",
                         !.heights = heights, !.timeSeries = timeSeries]

\* GET stations/{stationId}/metadata
Metadata(id) ==
    CASE id = "s1" -> MetadataBody("s1", "00001",
            <<RawHeight("ht2", 1000), RawHeight("ht1", 2100), RawHeight("ht3", 1001)>>,
            <<RawSeries("ts1", "wlp", "ph1"), RawSeries("ts2", "wlp-hilo", "ph1")>>)
      [] id = "s2" -> MetadataBody("s2", "00002",
            <<RawHeight("ht1", 2100), RawHeight("ht9", 1000)>>,   \* ht9: no such height type
            <<RawSeries("ts3", "wlp", "ph1")>>)
      [] id = "s3" -> MetadataBody("s3", "00003", <<>>,
            <<RawSeries("ts4", "wlp", "ph1")>>)
      [] id = "s4" -> MetadataBody("s4", "00002",
            <<RawHeight("ht1", 1500)>>,
            <<RawSeries("ts5", "wlp", "ph1"), RawSeries("ts6", "wlo", "ph9")>>)  \* ph9: no such phenomenon
      [] OTHER -> ErrorBody

HeightType(id, code, en, fr) == [id |-> id, code |-> code, nameEn |-> en, nameFr |-> fr]

\* GET height-types
HeightTypes ==
    <<HeightType("ht1", "HHWLT", "Higher High Water", "Pleine mer superieure"),
      HeightType("ht2", "LLWLT", "Lower Low Water", "Basse mer inferieure"),
      HeightType("ht3", "MWL", "Mean Water Level", "Niveau moyen")>>

\* GET tide-tables/{tideTableId}
TideTable(id) ==
    IF id = "tt1" THEN NameBody("Atlantic", "Atlantique") ELSE ErrorBody

\* GET phenomena/{phenomenonId}
Phenomenon(id) ==
    IF id = "ph1" THEN NameBody("Water level", "Niveau d'eau") ELSE ErrorBody

\* a prediction the API holds: the time (seconds into the day) and the level
Prediction(h, mi, value) == [sec |-> (h * 60 + mi) * 60, value |-> value]

\* predicted water levels (wlp) of a station over the day
WlpSeries(id) ==
    CASE id = "s1" ->
            <<Prediction(0, 0, 2000), Prediction(2, 0, 1500), Prediction(4, 0, 1000),
              Prediction(6, 0, 500), Prediction(8, 0, 1000), Prediction(10, 0, 1001),
              Prediction(12, 0, 3000), Prediction(14, 0, 1001), Prediction(16, 0, 1001),
              Prediction(18, 0, 500), Prediction(20, 0, 250), Prediction(22, 0, 1000)>>
      [] id = "s2" ->                       \* predictions end at noon
            <<Prediction(8, 0, 1000), Prediction(10, 0, 2000), Prediction(12, 0, 3000)>>
      [] OTHER -> <<>>

\* predicted high and low waters (wlp-hilo) of a station over the day
HiLoSeries(id) ==
    CASE id = "s1" ->
            <<Prediction(0, 10, 2100), Prediction(6, 0, 450),
              Prediction(12, 0, 3050), Prediction(18, 30, 440)>>
      [] id = "s2" ->
            <<Prediction(6, 0, 1000), Prediction(12, 0, 1001)>>
      [] OTHER -> <<>>

KnownStation(id) == id \in {"s1", "s2", "s3", "s4"}

\* the observation as the API prints it: eventDate to the second
Observation(p) ==
    [eventDate |-> p.sec, value |-> p.value,
     qcFlagCode |-> "2", timeSeriesId |-> "ts"]

\* GET stations/{stationId}/data?time-series-code=..&from=..&to=..
\* A bound the server cannot read is either refused (an error object) or,
\* by a lenient server, ignored.
StationData(id, code, from, to, lenient) ==
    With(<<WellFormedTimestamp(from), WellFormedTimestamp(to)>>, LAMBDA readable :
    IF ~KnownStation(id) THEN ErrorBody
    ELSE IF ~lenient /\ ~(readable[1] /\ readable[2]) THEN ErrorBody
    ELSE With(<<IF readable[1] THEN TimestampSecond(from) ELSE 0,
                IF readable[2] THEN TimestampSecond(to) ELSE 24 * 3600>>, LAMBDA bound :
         With(SelectSeq(IF code = "wlp" THEN WlpSeries(id) ELSE HiLoSeries(id),
                        LAMBDA p : bound[1] <= p.sec /\ p.sec <= bound[2]), LAMBDA served :
         ListBody([i \in 1..Len(served) |-> Observation(served[i])]))))

-----------------------------------------------------------------------------
(* Transport.  Each call of a handler meets at most one faulty response:   *)
(* the n-th request to an endpoint either raises (a transport error) or    *)
(* is answered with a body that is not JSON.                               *)

NoFault == [call |-> "none", n |-> 0, mode |-> "ok"]

Faults ==
    {NoFault} \cup
    [call : {"stations", "get_stations", "station_metadata", "height_types", "tide_table"},
     n : {1}, mode : {"raise", "nonjson"}] \cup
    [call : {"phenomenon", "station_data"}, n : {1, 2}, mode : {"raise", "nonjson"}]

Mode(net, call, n) == IF net.call = call /\ net.n = n THEN net.mode ELSE "ok"

\* get_data: the parsed body, or '0' when the content type is not JSON
get_data(mode, body) == IF mode = "nonjson" THEN Sentinel ELSE body

\* body[key] succeeds: the body is a JSON object holding the key
HasKey(body, value) == body.shape = "dict" /\ value # NoKey

\* the result of a handler or of one of its steps: the object's fields as the
\* step leaves them, and whether it returned (ok) or raised
Done(self) == [self |-> self, ok |-> TRUE]
Raised(self) == [self |-> self, ok |-> FALSE]

-----------------------------------------------------------------------------
(* Station resolution *)

\* geopy distance.distance between two <<lat, lon>> points; for points on the
\* equator the geodesic is the equatorial arc, here in degrees of longitude.
GeoDistance(a, b) == Abs(a[2] - b[2])

station_distance(point, station) ==
    GeoDistance(point, <<station.latitude, station.longitude>>)

RECURSIVE min_last(_, _, _, _)
\* a min() that keeps the last entry of least key
min_last(station_list, point, i, best) ==
    IF i > Len(station_list) THEN best
    ELSE With(IF station_distance(point, station_list[i])
                   <= station_distance(point, station_list[best])
              THEN i ELSE best,
              LAMBDA least : min_last(station_list, point, i + 1, least))

RECURSIVE min_by_distance(_, _, _, _)
\* min(station_list, key=station_distance): the first entry of least key
min_by_distance(station_list, point, i, best) ==
    IF i > Len(station_list) THEN best
    ELSE With(IF station_distance(point, station_list[i])
                   < station_distance(point, station_list[best])
              THEN i ELSE best,
              LAMBDA least : min_by_distance(station_list, point, i + 1, least))

\* closest_station(lat, lon): get_stations() raises on a transport error and
\* on a body that is not JSON; min() raises on an empty list.
closest_station(point, station_list, net) ==
    IF Mode(net, "get_stations", 1) # "ok" \/ Len(station_list) = 0
    THEN [ok |-> FALSE, id |-> None]
    ELSE [ok |-> TRUE, id |-> station_list[min_by_distance(station_list, point, 2, 1)].id]

\* CHSTides.stations(): GET stations?code=<station_code>
stations(self, station_list, net) ==
    get_data(Mode(net, "stations", 1),
             ListBody(SelectSeq(station_list, LAMBDA e : e.code = self.station_code)))

\* set(), lines 185-190
resolve_station_id(self, station_list, net) ==
    IF self.station_id # None THEN Done(self)
    ELSE IF self.station_code # None
    THEN IF Mode(net, "stations", 1) = "raise" THEN Raised(self)
         ELSE With(stations(self, station_list, net), LAMBDA body :
              With([self EXCEPT !.station_information = body], LAMBDA held :
                  IF HasKey(body, body.id)
                  THEN Done([held EXCEPT !.station_id = body.id])
                  ELSE Raised(held)))        \* a list or '0' indexed by "id"
    ELSE With(closest_station(self.coordinates, station_list, net), LAMBDA closest :
             IF closest.ok THEN Done([self EXCEPT !.station_id = closest.id])
             ELSE Raised(self))

-----------------------------------------------------------------------------
(* Metadata enrichment *)

Localized(body, lang) == IF lang = "english" THEN body.nameEn ELSE body.nameFr

\* CHSTides.station_metadata(): GET stations/{stationId}/metadata
station_metadata(self, net) ==
    get_data(Mode(net, "station_metadata", 1), Metadata(self.station_id))

RECURSIVE match_height_types(_, _, _, _, _)
\* update_heights_metadata, the inner loop (lines 318-325) for one height:
\* every height type of that id attaches code and name and pops heightTypeId;
\* popping a key already popped raises.
match_height_types(height, heightTypeId, height_types, lang, i) ==
    IF i > Len(height_types) THEN [height |-> height, ok |-> TRUE]
    ELSE IF height_types[i].id # heightTypeId
    THEN match_height_types(height, heightTypeId, height_types, lang, i + 1)
    ELSE With([height EXCEPT !.code = height_types[i].code,
                             !.name = Localized(height_types[i], lang)], LAMBDA named :
             IF height.heightTypeId = NoKey THEN [height |-> named, ok |-> FALSE]
             ELSE With([named EXCEPT !.heightTypeId = NoKey], LAMBDA popped :
                      match_height_types(popped, heightTypeId, height_types, lang, i + 1)))

RECURSIVE enrich_heights(_, _, _, _)
\* update_heights_metadata, the outer loop (lines 316-327), in place
enrich_heights(self, types_body, heights, j) ==
    LET held == [self EXCEPT !.station_information.heights = heights]
    IN  IF j > Len(heights) THEN Done(held)
        ELSE IF heights[j].heightTypeId = NoKey THEN Raised(held)
        ELSE IF types_body.shape # "list" THEN Raised(held)   \* '0'[0]["id"]
        ELSE With(match_height_types(heights[j], heights[j].heightTypeId,
                                     types_body.items, self.language, 1), LAMBDA m :
                 IF ~m.ok THEN Raised([self EXCEPT !.station_information.heights =
                                                       [heights EXCEPT ![j] = m.height]])
                 ELSE With([heights EXCEPT ![j] =
                               [m.height EXCEPT !.value = Convert(@, self.measurement)]],
                           LAMBDA converted :
                               enrich_heights(self, types_body, converted, j + 1)))

\* CHSTides.update_heights_metadata
update_heights_metadata(self, net) ==
    IF Mode(net, "height_types", 1) = "raise" THEN Raised(self)
    ELSE IF self.station_information.shape # "dict" THEN Raised(self)
    ELSE With(get_data(Mode(net, "height_types", 1), ListBody(HeightTypes)),
              LAMBDA height_types :
                  enrich_heights(self, height_types, self.station_information.heights, 1))

\* CHSTides.update_tidetable_metadata
update_tidetable_metadata(self, net) ==
    IF ~HasKey(self.station_information, self.station_information.tideTableId)
    THEN Raised(self)
    ELSE IF Mode(net, "tide_table", 1) = "raise" THEN Raised(self)
    ELSE With(get_data(Mode(net, "tide_table", 1),
                       TideTable(self.station_information.tideTableId)), LAMBDA tidetable :
             IF ~HasKey(tidetable, Localized(tidetable, self.language)) THEN Raised(self)
             ELSE Done([self EXCEPT
                     !.station_information.tideTable = Localized(tidetable, self.language),
                     !.station_information.tideTableId = NoKey]))

RECURSIVE enrich_series(_, _, _, _)
\* update_timeseries_metadata, the loop (lines 285-298), in place
enrich_series(self, net, series, i) ==
    IF i > Len(series) THEN Done([self EXCEPT !.station_information.timeSeries = series])
    ELSE LET ts == series[i]
             own == [ts EXCEPT !.id = NoKey, !.name = Localized(ts, self.language),
                               !.nameEn = NoKey, !.nameFr = NoKey]
             stopped == Raised([self EXCEPT !.station_information.timeSeries =
                                               [series EXCEPT ![i] = own]])
             phenomena == get_data(Mode(net, "phenomenon", i), Phenomenon(ts.phenomenonId))
         IN  IF ts.id = NoKey \/ ts.nameEn = NoKey \/ ts.nameFr = NoKey \/ ts.phenomenonId = NoKey
             THEN Raised([self EXCEPT !.station_information.timeSeries = series])
             ELSE IF Mode(net, "phenomenon", i) = "raise" THEN stopped
             ELSE IF ~HasKey(phenomena, Localized(phenomena, self.language)) THEN stopped
             ELSE With([series EXCEPT ![i] =
                           [own EXCEPT !.name = Localized(phenomena, self.language),
                                       !.phenomenonId = NoKey]],
                       LAMBDA named : enrich_series(self, net, named, i + 1))

\* CHSTides.update_timeseries_metadata
update_timeseries_metadata(self, net) ==
    IF self.station_information.shape # "dict" THEN Raised(self)
    ELSE enrich_series(self, net, self.station_information.timeSeries, 1)

\* a set() that keeps the station record it holds instead of fetching it anew
reuse_metadata(self, net) ==
    IF self.station_information.shape = "dict" THEN Done(self)
    ELSE IF Mode(net, "station_metadata", 1) = "raise" THEN Raised(self)
    ELSE Done([self EXCEPT !.station_information = station_metadata(self, net)])

\* set(), line 191: self.station_information = await self.station_metadata()
fetch_metadata(self, net) ==
    IF Mode(net, "station_metadata", 1) = "raise" THEN Raised(self)
    ELSE Done([self EXCEPT !.station_information = station_metadata(self, net)])

\* set(), line 195: self.station_code = self.station_information["code"]
set_station_code(self) ==
    IF ~HasKey(self.station_information, self.station_information.code) THEN Raised(self)
    ELSE Done([self EXCEPT !.station_code = self.station_information.code])

\* r, then the next step unless r raised
Then(r, next(_)) == With(r, LAMBDA step : IF step.ok THEN next(step.self) ELSE step)

\* CHSTides.set
set(self, station_list, net) ==
    LET metadata(o) == fetch_metadata(o, net)
        heights(o) == update_heights_metadata(o, net)
        tidetable(o) == update_tidetable_metadata(o, net)
        timeseries(o) == update_timeseries_metadata(o, net)
    IN  Then(Then(Then(Then(Then(resolve_station_id(self, station_list, net),
            metadata), heights), tidetable), timeseries), set_station_code)

-----------------------------------------------------------------------------
(* Derived conditions *)

timeseriescodes ==
    {"wlo", "wlp", "wlp-hilo", "wlp-bores", "wcp-slack", "wlf", "wlf-spine", "dvcf-spine"}

\* CHSTides.validate_query_parameters for the parameters of station_data:
\* 'from' and 'to' are formatted, a time-series-code not in the list is left
\* out (code is then the empty sequence)
validate_query_parameters(kwargs) ==
    [code |-> IF kwargs.code \in timeseriescodes THEN <<kwargs.code>> ELSE <<>>,
     from |-> QueryTimestamp(kwargs.from),
     to |-> QueryTimestamp(kwargs.to)]

\* CHSTides.station_data: validate_query_parameters formats 'from' and 'to',
\* construct_url addresses the station, get_data fetches.
station_data(self, code, from, to, mode, lenient) ==
    With(validate_query_parameters([code |-> code, from |-> from, to |-> to]),
         LAMBDA qparams :
             get_data(mode, StationData(self.station_id, code,
                                        qparams.from, qparams.to, lenient)))

\* current_conditions, the loop of lines 221-237 from event i on; an absent
\* (None) local is the empty sequence.  low_value and high_value are kept as
\* the code keeps them; nothing reads them.
RECURSIVE scan_events(_, _, _, _, _)
scan_events(tide_data, currentDT, unit, i, acc) ==
    IF i > Len(tide_data) THEN acc
    ELSE LET eventDate == strptime(tide_data[i].eventDate)
             eventValue == Convert(tide_data[i].value, unit)
             a1 == [acc EXCEPT
                      !.low_value = IF eventValue < @ THEN eventValue ELSE @,
                      !.high_value = IF eventValue > @ THEN eventValue ELSE @]
             a2 == IF Before(eventDate, currentDT)
                   THEN [a1 EXCEPT !.event_previous = <<eventValue>>,
                                   !.event_date = <<eventDate>>]
                   ELSE a1
         IN  With(a2, LAMBDA seen :
                 IF Before(currentDT, eventDate) /\ seen.event_next = <<>>
                 THEN [seen EXCEPT !.event_next = <<eventValue>>]     \* break
                 ELSE scan_events(tide_data, currentDT, unit, i + 1, seen))

ScanStart ==
    [event_previous |-> <<>>, event_next |-> <<>>, event_date |-> <<>>,
     low_value |-> 99 * 1000, high_value |-> (-99) * 1000]

\* a comparison that takes equal values for a rising tide
rising_or_level(previous, next) == IF previous <= next THEN "rising" ELSE "falling"

\* current_conditions, lines 242-245
rising_strict(previous, next) == IF previous < next THEN "rising" ELSE "falling"

\* CHSTides.current_conditions, lines 216-247, given the body station_data
\* returned
conditions_of(tide_data, currentDT, unit) ==
    IF tide_data.shape # "list" THEN [ok |-> FALSE, value |-> <<>>]
    ELSE With(scan_events(tide_data.items, currentDT, unit, 1, ScanStart), LAMBDA acc :
             IF acc.event_date = <<>> \/ acc.event_next = <<>>
             THEN [ok |-> FALSE, value |-> <<>>]
             ELSE [ok |-> TRUE,
                   value |-> <<[value |-> acc.event_previous[1],
                                eventDate |-> strftime(acc.event_date[1]),
                                status |-> rising_strict(acc.event_previous[1],
                                                         acc.event_next[1])]>>])

\* the request of current_conditions and of last_next_hilo, lines 209-215 and
\* 259-265; a transport error leaves no body
window_data(self, code, currentDT, mode, lenient) ==
    IF mode = "raise" THEN [raised |-> TRUE, body |-> ErrorBody]
    ELSE [raised |-> FALSE,
          body |-> station_data(self, code, PlusHours(currentDT, -WindowHours),
                                PlusHours(currentDT, WindowHours), mode, lenient)]

\* CHSTides.current_conditions; seen is the list it was answered with
current_conditions(self, currentDT, net, lenient) ==
    With(window_data(self, "wlp", currentDT, Mode(net, "station_data", 1), lenient),
         LAMBDA got :
    With(conditions_of(got.body, currentDT, self.measurement), LAMBDA res :
        IF got.raised THEN [ok |-> FALSE, value |-> <<>>, seen |-> <<>>]
        ELSE [ok |-> res.ok, value |-> res.value,
              seen |-> IF got.body.shape = "list" THEN got.body.items ELSE <<>>]))

lowtideLang == <<"low tide", "marée basse">>
hightideLang == <<"high tide", "marée haute">>

\* last_next_hilo, lines 266-270: the event without qcFlagCode and
\* timeSeriesId, its value in the unit asked for
strip_event(event, unit) ==
    [eventDate |-> event.eventDate, value |-> Convert(event.value, unit), event |-> NoKey]

\* a labelling by position: the first event low, the second high
label_in_order(tide_data, lang) ==
    [tide_data EXCEPT ![1].event = lowtideLang[lang], ![2].event = hightideLang[lang]]

\* last_next_hilo, lines 271-276
label_events(tide_data, lang) ==
    IF tide_data[1].value < tide_data[2].value
    THEN [tide_data EXCEPT ![1].event = lowtideLang[lang], ![2].event = hightideLang[lang]]
    ELSE [tide_data EXCEPT ![1].event = hightideLang[lang], ![2].event = lowtideLang[lang]]

\* CHSTides.last_next_hilo, given the body station_data returned
hilo_of(tide_data, language_, unit) ==
    IF tide_data.shape # "list" \/ Len(tide_data.items) < 2
    THEN [ok |-> FALSE, value |-> <<>>]
    ELSE With([i \in 1..Len(tide_data.items) |-> strip_event(tide_data.items[i], unit)],
              LAMBDA stripped :
                  [ok |-> TRUE,
                   value |-> <<label_events(stripped,
                                            IF language_ = "english" THEN 1 ELSE 2)>>])

\* CHSTides.last_next_hilo; seen is the list it was answered with
last_next_hilo(self, currentDT, net, lenient) ==
    With(window_data(self, "wlp-hilo", currentDT, Mode(net, "station_data", 2), lenient),
         LAMBDA got :
    With(hilo_of(got.body, self.language, self.measurement), LAMBDA res :
        IF got.raised THEN [ok |-> FALSE, value |-> <<>>, seen |-> <<>>]
        ELSE [ok |-> res.ok, value |-> res.value,
              seen |-> IF got.body.shape = "list" THEN got.body.items ELSE <<>>]))

\* update(), line 202
store_conditions(self, cc) == [self EXCEPT !.conditions.conditions = cc.value]

\* update(), line 203
store_hilo(self, hl) == [self EXCEPT !.conditions.hilo = hl.value]

\* update(), lines 200-201
ensure_resolved(self, station_list, net) ==
    IF self.station_id = None THEN set(self, station_list, net) ELSE Done(self)

\* CHSTides.update; now1 and now2 are the two readings of utcnow().  stage
\* names the step that raised ("returned" when none did); wlp and hilo are
\* the lists the two requests were answered with.
update(self, station_list, net, now1, now2, lenient) ==
    With(ensure_resolved(self, station_list, net), LAMBDA r :
        IF ~r.ok
        THEN [self |-> r.self, ok |-> FALSE, stage |-> "set", wlp |-> <<>>, hilo |-> <<>>]
        ELSE With(current_conditions(r.self, now1, net, lenient), LAMBDA cc :
                 IF ~cc.ok
                 THEN [self |-> r.self, ok |-> FALSE, stage |-> "current_conditions",
                       wlp |-> cc.seen, hilo |-> <<>>]
                 ELSE With(store_conditions(r.self, cc), LAMBDA s1 :
                      With(last_next_hilo(s1, now2, net, lenient), LAMBDA hl :
                          [self |-> IF hl.ok THEN store_hilo(s1, hl) ELSE s1,
                           ok |-> hl.ok,
                           stage |-> IF hl.ok THEN "returned" ELSE "last_next_hilo",
                           wlp |-> cc.seen, hilo |-> hl.seen]))))

-----------------------------------------------------------------------------
(* The heights view *)

\* a read of heights that gave nothing: none was made yet, or it raised
NotRead == [ok |-> FALSE, value |-> <<>>]

\* a sort that puts an entry ahead of the entries of its own value
insert_before_equal(ordered, height) ==
    With(Cardinality({k \in 1..Len(ordered) : ordered[k].value > height.value}),
         LAMBDA n : SubSeq(ordered, 1, n) \o <<height>> \o SubSeq(ordered, n + 1, Len(ordered)))

\* sorted(..., reverse = True), one entry at a time: the sort is stable, so an
\* entry goes behind every entry of a value at least its own
insert_descending(ordered, height) ==
    With(Cardinality({k \in 1..Len(ordered) : ordered[k].value >= height.value}),
         LAMBDA n : SubSeq(ordered, 1, n) \o <<height>> \o SubSeq(ordered, n + 1, Len(ordered)))

RECURSIVE sorted_reverse(_, _, _)
\* sorted(height_data, key = value, reverse = True), line 350
sorted_reverse(entries, i, ordered) ==
    IF i > Len(entries) THEN ordered
    ELSE With(insert_descending(ordered, entries[i]),
              LAMBDA longer : sorted_reverse(entries, i + 1, longer))

\* lines 345-349: the copy appended for one stored height
height_copy(h) == [code |-> h.code, name |-> h.name, value |-> h.value]

\* CHSTides.heights: station_information["heights"] raises unless
\* station_information is a station record, h["code"] and h["name"] raise on a
\* height that holds none
heights(self) ==
    IF self.station_information.shape # "dict" THEN NotRead
    ELSE With(self.station_information.heights, LAMBDA stored :
             IF \E i \in 1..Len(stored) : stored[i].code = NoKey \/ stored[i].name = NoKey
             THEN NotRead
             ELSE [ok |-> TRUE,
                   value |-> sorted_reverse([i \in 1..Len(stored) |-> height_copy(stored[i])],
                                            1, <<>>)])

-----------------------------------------------------------------------------
(* The object and its callers *)

\* CHSTides.__init__, lines 125-138, for validated keyword arguments
\* (an argument left out is None, coordinates left out are <<>>)
Constructed(kwargs) ==
    [station_id |-> IF kwargs.station_id # None THEN kwargs.station_id ELSE None,
     station_code |-> IF kwargs.station_id = None /\ kwargs.station_code # None
                      THEN kwargs.station_code ELSE None,
     coordinates |-> IF kwargs.station_id = None /\ kwargs.station_code = None
                     THEN kwargs.coordinates ELSE <<>>,
     language |-> kwargs.language,
     measurement |-> kwargs.measurement,
     station_information |-> EmptyDict,
     conditions |-> [conditions |-> <<>>, hilo |-> <<>>]]

Selectors ==
    [station_id : {"s1", "s2", "s3", "s4", "s9"}, station_code : {None}, coordinates : {<<>>}]
    \cup [station_id : {None}, station_code : {"00001", "00002", "00009"}, coordinates : {<<>>}]
    \cup [station_id : {None}, station_code : {None},
          coordinates : {<<0, 0>>, <<0, 1>>, <<0, 4>>}]
    \cup {[station_id |-> "s1", station_code |-> "00002", coordinates |-> <<0, 4>>],
          [station_id |-> None, station_code |-> "00001", coordinates |-> <<0, 4>>]}

\* the selectors of the full life cycle (Spec)
RefSelectors ==
    {k \in Selectors :
        \/ k.station_id \in {"s1", "s2"} /\ k.station_code = None
        \/ k.station_id = None /\ k.station_code = "00001" /\ k.coordinates = <<>>
        \/ k.station_id = None /\ k.station_code = None /\ k.coordinates = <<0, 1>>}

Kwargs(selectors) ==
    {[station_id |-> k.station_id, station_code |-> k.station_code,
      coordinates |-> k.coordinates, language |-> l, measurement |-> m] :
        k \in selectors, l \in {"english", "french"}, m \in {"m", "ft"}}

\* the readings utcnow() gives
Clock ==
    {At(9, 0, 0, 500000), At(11, 0, 0, 500000), At(12, 0, 0, 0),
     At(13, 0, 0, 500000), At(16, 0, 0, 500000)}

\* the readings of the full life cycle (Spec)
RefClock == {At(11, 0, 0, 500000), At(13, 0, 0, 500000)}

\* a reading taken a little after dt, the same second
ALittleLater(dt) == [dt EXCEPT !.us = 500000]

Self ==
    [station_id |-> station_id, station_code |-> station_code,
     coordinates |-> coordinates, language |-> language, measurement |-> measurement,
     station_information |-> station_information, conditions |-> conditions]

Becomes(self) ==
    /\ station_id' = self.station_id
    /\ station_code' = self.station_code
    /\ coordinates' = self.coordinates
    /\ language' = self.language
    /\ measurement' = self.measurement
    /\ station_information' = self.station_information
    /\ conditions' = self.conditions

NoTime == At(0, 0, 0, 0)

\* history of the last completed call: the handler; whether it returned; for
\* update() the step that raised; how the set() it ran ended; whether every
\* response was sound (clean); whether it was a set() that returned right
\* after a set() that returned; and for update() the clock readings and the
\* lists the two station_data requests were answered with
History(op, ok, stage, setEnded, clean, again, now1, now2, wlp, hilo) ==
    [op |-> op, ok |-> ok, stage |-> stage, set |-> setEnded, clean |-> clean,
     again |-> again, now1 |-> now1, now2 |-> now2, wlp |-> wlp, hilo |-> hilo]

\* no query built yet
NoRequest == [kwargs |-> <<>>, qparams |-> <<>>]

InitOver(selectors, catalogs) ==
    \E kwargs \in Kwargs(selectors), station_list \in catalogs :
        /\ station_id = Constructed(kwargs).station_id
        /\ station_code = Constructed(kwargs).station_code
        /\ coordinates = Constructed(kwargs).coordinates
        /\ language = kwargs.language
        /\ measurement = kwargs.measurement
        /\ station_information = EmptyDict
        /\ conditions = [conditions |-> <<>>, hilo |-> <<>>]
        /\ catalog = station_list
        /\ selector = [station_id |-> kwargs.station_id,
                       station_code |-> kwargs.station_code,
                       coordinates |-> kwargs.coordinates]
        /\ last = History("init", TRUE, "none", "none", TRUE, FALSE,
                          NoTime, NoTime, <<>>, <<>>)
        /\ height_data = NotRead
        /\ request = NoRequest

\* objects addressed by station id, for the derived conditions alone
IdSelectors ==
    {k \in Selectors : k.station_id \in {"s1", "s2", "s3", "s9"} /\ k.station_code = None}

Init == InitOver(RefSelectors, {RefCatalog})

InitResolve == InitOver(Selectors, SeqsNoRep(AllStations, MaxCatalog))

InitConditions == InitOver(IdSelectors, {RefCatalog})

\* await tides.set()
SetCall ==
    \E net \in Faults :
        \E r \in {set(Self, catalog, net)} :
            /\ Becomes(r.self)
            /\ last' = History("set", r.ok, "none", IF r.ok THEN "ok" ELSE "raised",
                               net = NoFault, r.ok /\ last.op = "set" /\ last.ok,
                               NoTime, NoTime, <<>>, <<>>)
            /\ UNCHANGED <<catalog, selector, height_data, request>>

\* the faults a call of update() can meet
UpdateFaults ==
    {net \in Faults : net.call \in {"none", "station_data"} \/ station_id = None}

\* await tides.update(): the second reading of the clock is the first one or
\* one a little later; how the server takes an unreadable bound matters only
\* when a reading falls on a whole second
UpdateCall(clock) ==
    \E net \in UpdateFaults, now1 \in clock, later \in BOOLEAN, lenient \in BOOLEAN :
        /\ now1.us = 0 \/ (~later /\ ~lenient)
        /\ \E now2 \in {IF later THEN ALittleLater(now1) ELSE now1} :
           \E r \in {update(Self, catalog, net, now1, now2, lenient)} :
           LET setRan == station_id = None
               ccRan == r.stage # "set"
               hlRan == r.stage \in {"last_next_hilo", "returned"}
           IN  /\ Becomes(r.self)
               /\ last' = History("update", r.ok, r.stage,
                      IF ~setRan THEN "none" ELSE IF ccRan THEN "ok" ELSE "raised",
                      net = NoFault, FALSE,
                      IF ccRan THEN now1 ELSE NoTime,
                      IF hlRan THEN now2 ELSE NoTime,
                      r.wlp, r.hilo)
               /\ UNCHANGED <<catalog, selector, height_data, request>>

\* the full life cycle of an object, on the reference catalog
Next == SetCall \/ UpdateCall(RefClock)

Spec == Init /\ [][Next]_vars

\* station resolution and enrichment over every catalog
NextResolve == SetCall

SpecResolve == InitResolve /\ [][NextResolve]_vars

\* the derived conditions over every reading of the clock
NextConditions == UpdateCall(Clock)

SpecConditions == InitConditions /\ [][NextConditions]_vars

\* a height as update_heights_metadata leaves it
StoredHeight(code, value) ==
    [heightTypeId |-> NoKey, value |-> value, code |-> code, name |-> code]

\* the heights a cached station record may hold: enriched ones, and one whose
\* heightTypeId met no height type
HeightEntries ==
    {StoredHeight(c, v) : c \in {"HHWLT", "LLWLT"}, v \in {1000, 2000, 3000}}
    \cup {RawHeight("ht9", 1000)}

\* the station records of SpecHeights: the empty dict of __init__, and the
\* record of s1 after set() with up to MaxHeights heights
HeightRecords ==
    {EmptyDict} \cup
    {[MetadataBody("s1", "00001", h, <<>>) EXCEPT !.tideTableId = NoKey,
                                                  !.tideTable = "Atlantic"] :
        h \in UNION {[1..n -> HeightEntries] : n \in 0..MaxHeights}}

InitHeights ==
    /\ station_id = "s1"
    /\ station_code = None
    /\ coordinates = <<>>
    /\ language = "english"
    /\ measurement = "m"
    /\ station_information \in HeightRecords
    /\ conditions = [conditions |-> <<>>, hilo |-> <<>>]
    /\ catalog = RefCatalog
    /\ selector = [station_id |-> "s1", station_code |-> None, coordinates |-> <<>>]
    /\ last = History("init", TRUE, "none", "none", TRUE, FALSE,
                      NoTime, NoTime, <<>>, <<>>)
    /\ height_data = NotRead
    /\ request = NoRequest

\* tides.heights
HeightsRead ==
    \E r \in {heights(Self)} :
        /\ height_data' = r
        /\ last' = History("heights", r.ok, "none", "none", TRUE, FALSE,
                           NoTime, NoTime, <<>>, <<>>)
        /\ UNCHANGED <<station_id, station_code, coordinates, language, measurement,
                       station_information, conditions, catalog, selector, request>>

\* the heights view over the station records a set() can leave
NextHeights == HeightsRead

SpecHeights == InitHeights /\ [][NextHeights]_vars

\* the datetimes and codes station_data is called with in SpecQuery
QueryTimes ==
    {At(5, 0, 0, 500000), At(5, 0, 0, 0), At(12, 0, 0, 0),
     At(19, 30, 59, 1), At(23, 59, 59, 999999)}

QueryKwargs == [code : {"wlp", "wlp-hilo", "tides"}, from : QueryTimes, to : QueryTimes]

\* station_data(**kwargs), line 360: the query parameters it builds
QueryCall ==
    \E kwargs \in QueryKwargs :
        /\ request' = [kwargs |-> kwargs, qparams |-> validate_query_parameters(kwargs)]
        /\ last' = History("validate", TRUE, "none", "none", TRUE, FALSE,
                           NoTime, NoTime, <<>>, <<>>)
        /\ UNCHANGED <<station_id, station_code, coordinates, language, measurement,
                       station_information, conditions, catalog, selector, height_data>>

\* the query parameters over every datetime
NextQuery == QueryCall

SpecQuery == InitConditions /\ [][NextQuery]_vars

-----------------------------------------------------------------------------
(* Properties *)

ByCode == selector.station_id = None /\ selector.station_code # None
ByCoordinates ==
    selector.station_id = None /\ selector.station_code = None

\* C1: update() is all-or-nothing for the cached conditions: a call of
\* update() that raises, at whichever step, leaves self.conditions as it was
\* before the call.
C1_RefreshAllOrNothing ==
    [][(last'.op = "update" /\ ~last'.ok) => conditions' = conditions]_vars

\* C2: set() is all-or-nothing for the cached station record: a call of set()
\* that raises, at whichever step, leaves self.station_information as it was
\* before the call.
C2_ResolveAllOrNothing ==
    [][(last'.op = "set" /\ ~last'.ok) => station_information' = station_information]_vars

\* C3: whatever the selector, an update() that returns leaves
\* station_information a populated station record, as set() would.
C3_UpdateResolvesFirst ==
    (last.op = "update" /\ last.ok) => station_information.shape = "dict"

DistanceTo(k) == station_distance(selector.coordinates, catalog[k])

\* C4: with a coordinates selector, the station id resolved is that of a
\* catalog entry at the least distance from the coordinates, and of the
\* first such entry in the order of the catalog.
C4_ClosestStation ==
    (ByCoordinates /\ station_id # None) =>
        \E k \in 1..Len(catalog) :
            /\ catalog[k].id = station_id
            /\ \A j \in 1..Len(catalog) :
                  /\ DistanceTo(k) <= DistanceTo(j)
                  /\ j < k => DistanceTo(k) < DistanceTo(j)

\* a coordinates selector was resolved on a catalog where the entry chosen
\* is tied with a later one
C4_Witness ==
    /\ ByCoordinates /\ station_id # None /\ last.op = "set"
    /\ \E k, j \in 1..Len(catalog) :
          k < j /\ catalog[k].id = station_id /\ DistanceTo(k) = DistanceTo(j)

Matching(code) == SelectSeq(catalog, LAMBDA e : e.code = code)

\* C5: with a station-code selector and sound responses, set() has two
\* outcomes: when exactly one catalog entry carries the code, station_id is
\* that entry's id and station_code its code; otherwise set() raises and
\* station_id stays unset.
C5_ByCodeOutcomes ==
    (ByCode /\ last.op = "set" /\ last.clean) =>
        LET found == Matching(selector.station_code)
        IN  IF Len(found) = 1
            THEN station_id = found[1].id /\ station_code = found[1].code
            ELSE ~last.ok /\ station_id = None

\* the wlp observations the last update() was answered with, against the
\* reading of the clock current_conditions took
WlpBefore(k) == Before(strptime(last.wlp[k].eventDate), last.now1)
WlpAfter(k) == Before(last.now1, strptime(last.wlp[k].eventDate))
WlpAt(k) == ~WlpBefore(k) /\ ~WlpAfter(k)

Previous == CHOOSE k \in 1..Len(last.wlp) :
                WlpBefore(k) /\ \A j \in 1..Len(last.wlp) : WlpBefore(j) => j <= k
FirstAtOrAfter == CHOOSE k \in 1..Len(last.wlp) :
                      ~WlpBefore(k) /\ \A j \in 1..Len(last.wlp) : ~WlpBefore(j) => k <= j
FirstAfter == CHOOSE k \in 1..Len(last.wlp) :
                  WlpAfter(k) /\ \A j \in 1..Len(last.wlp) : WlpAfter(j) => k <= j

InUnit(value) == IF measurement = "ft" THEN 10 * RoundDiv(value * 328084, 100000000)
                 ELSE value

\* the conditions the claim gives for 'previous' p and 'next' n
ConditionsFor(p, n) ==
    [value |-> InUnit(last.wlp[p].value),
     eventDate |-> last.wlp[p].eventDate,
     status |-> IF InUnit(last.wlp[p].value) < InUnit(last.wlp[n].value)
                THEN "rising" ELSE "falling"]

ConditionsReturned == last.op = "update" /\ last.stage \in {"last_next_hilo", "returned"}

LowLabel == IF language = "english" THEN "low tide" ELSE "marée basse"
HighLabel == IF language = "english" THEN "high tide" ELSE "marée haute"

\* C7: every update() that returns stores exactly two hi-lo events, the
\* first before now and the second after now, each carrying a high-tide or
\* low-tide label.
C7_TwoLabelledEvents ==
    (last.op = "update" /\ last.ok) =>
        LET hilo == conditions.hilo[1]
        IN  /\ Len(hilo) = 2
            /\ Before(strptime(hilo[1].eventDate), last.now2)
            /\ Before(last.now2, strptime(hilo[2].eventDate))
            /\ \A i \in 1..Len(hilo) : hilo[i].event \in {LowLabel, HighLabel}

C9_SetIdempotent ==
    [][(last.op = "set" /\ last.ok /\ last'.op = "set") =>
          /\ last'.clean => last'.ok
          /\ last'.ok => /\ station_information' = station_information
                         /\ station_id' = station_id
                         /\ station_code' = station_code]_vars

\* set() returned twice in a row on an object measuring in feet whose
\* station has heights
C9_Witness ==
    /\ last.op = "set" /\ last.ok /\ last.again /\ measurement = "ft"
    /\ station_information.heights # <<>>

\* C10: after every set() that returns, the station record holds no
\* cross-reference id: every height has lost heightTypeId and carries a code
\* and a name, every series has lost id and phenomenonId, and tideTableId has
\* given way to the tideTable name.
C10_NoCrossReferences ==
    (last.op = "set" /\ last.ok) =>
        /\ \A i \in 1..Len(station_information.heights) :
              /\ station_information.heights[i].heightTypeId = NoKey
              /\ station_information.heights[i].code # NoKey
              /\ station_information.heights[i].name # NoKey
        /\ \A i \in 1..Len(station_information.timeSeries) :
              /\ station_information.timeSeries[i].id = NoKey
              /\ station_information.timeSeries[i].phenomenonId = NoKey
        /\ station_information.tideTableId = NoKey
        /\ station_information.tideTable # NoKey

\* the stored heights all carry what the view copies
HeightsComplete ==
    /\ station_information.shape = "dict"
    /\ \A i \in 1..Len(station_information.heights) :
          /\ station_information.heights[i].code # NoKey
          /\ station_information.heights[i].name # NoKey

\* out is the stored heights rearranged by p, equal values in stored order
StableArrangement(stored, out, p) ==
    /\ \A i \in DOMAIN p : \E j \in DOMAIN p : p[j] = i
    /\ \A i \in DOMAIN p :
          /\ out[i].code = stored[p[i]].code
          /\ out[i].name = stored[p[i]].name
          /\ out[i].value = stored[p[i]].value
          /\ DOMAIN out[i] = {"code", "name", "value"}
    /\ \A i, j \in DOMAIN p :
          (i < j /\ out[i].value = out[j].value) => p[i] < p[j]

\* C11: a read of heights over a station record whose heights carry code,
\* name and value returns one entry per stored height, the same code, name
\* and value, in non-increasing order of value with entries of equal value in
\* their stored order, and leaves station_information as it was.
C11_HeightsSortedView ==
    [][(last'.op = "heights" /\ HeightsComplete) =>
          /\ height_data'.ok
          /\ Len(height_data'.value) = Len(station_information.heights)
          /\ \A i \in 1..(Len(height_data'.value) - 1) :
                height_data'.value[i].value >= height_data'.value[i + 1].value
          /\ \E p \in [1..Len(station_information.heights) ->
                          1..Len(station_information.heights)] :
                StableArrangement(station_information.heights, height_data'.value, p)
          /\ station_information' = station_information]_vars

\* heights was read over stored heights that were out of order and held two
\* entries of one value under different codes
C11_Witness ==
    /\ last.op = "heights" /\ height_data.ok
    /\ \E i, j \in 1..Len(station_information.heights) :
          /\ i < j
          /\ station_information.heights[i].value < station_information.heights[j].value
    /\ \E i, j \in 1..Len(station_information.heights) :
          /\ i < j
          /\ station_information.heights[i].value = station_information.heights[j].value
          /\ station_information.heights[i].code # station_information.heights[j].code

\* C12: for every datetime given as 'from' or 'to', a microsecond field of 0
\* included, validate_query_parameters builds the timestamp
\* YYYY-MM-DDTHH:MM:SSZ of that datetime cut to the second.
C12_TimestampToTheSecond ==
    last.op = "validate" =>
        /\ WellFormedTimestamp(request.qparams.from)
        /\ TimestampSecond(request.qparams.from) = request.kwargs.from.sec
        /\ WellFormedTimestamp(request.qparams.to)
        /\ TimestampSecond(request.qparams.to) = request.kwargs.to.sec

====
